---- MODULE Spec2Model ----
(***************************************************************************)
(* A model of the aiplay crawl engine (src/aiplay/crawl.py) together with  *)
(* the page/link store it writes (src/aiplay/db/*.py).                     *)
(*                                                                         *)
(* Strings that the code takes apart are modelled as the sequence of their *)
(* "/"-separated tokens: "https://a.com/a/b" is <<"https:","","a.com",     *)
(* "a","b">>.  An optional value is <<>> (None / NULL) or <<v>>.           *)
(***************************************************************************)
EXTENDS Integers, Sequences, FiniteSets, TLC

\* ------------------------------------------------------------------------
\* Bounds of the model
\* ------------------------------------------------------------------------
NumWorkers == 2

\* how many renders or link-processing calls may fail in one run
MaxFaults == 1

Workers == 1..NumWorkers

None == <<>>
Some(v) == <<v>>

\* ------------------------------------------------------------------------
\* The crawled site: URLs and the link list the extractor yields per page
\* ------------------------------------------------------------------------
Base == <<"https:", "", "a.com">>
UrlRoot == Base
UrlA == Base \o <<"a">>
UrlAB == Base \o <<"a", "b">>
UrlPriv == Base \o <<"private", "x">>
UrlDoc == Base \o <<"r.PDF">>
UrlExt == <<"https:", "", "b.com", "z">>

\* what extract_links returns for the rendered page of each URL
SiteLinks(url) ==
    CASE url = UrlRoot -> <<[url |-> UrlA, text |-> "a"],
                            [url |-> UrlExt, text |-> "z"]>>
      [] url = UrlA -> <<[url |-> UrlAB, text |-> "b"],
                         [url |-> UrlPriv, text |-> "p"],
                         [url |-> UrlRoot, text |-> "home"]>>
      [] url = UrlAB -> <<[url |-> UrlDoc, text |-> "r"],
                          [url |-> UrlA, text |-> "a"]>>
      [] url = UrlPriv -> <<[url |-> UrlDoc, text |-> "r"]>>
      [] OTHER -> <<>>

\* ------------------------------------------------------------------------
\* urllib.parse.urlparse, as far as the crawler uses it
\* ------------------------------------------------------------------------
HasNetloc(url) == Len(url) >= 3 /\ url[2] = ""

Netloc(url) == IF HasNetloc(url) THEN url[3] ELSE ""

\* the path, as the token sequence of "/seg1/seg2" (<<>> for the empty path)
UrlPath(url) ==
    IF HasNetloc(url)
    THEN IF Len(url) = 3 THEN <<>> ELSE <<"">> \o SubSeq(url, 4, Len(url))
    ELSE url

\* len(parsed.path.lstrip("/").rstrip("/").split("/")): "".split("/") is [""]
RECURSIVE StripSlashes(_)
StripSlashes(path) ==
    IF path = <<>> THEN <<>>
    ELSE IF Head(path) = "" THEN StripSlashes(Tail(path))
    ELSE IF path[Len(path)] = "" THEN StripSlashes(SubSeq(path, 1, Len(path) - 1))
    ELSE path

NumComponents(url) ==
    LET segs == StripSlashes(UrlPath(url))
    IN IF segs = <<>> THEN 1 ELSE Len(segs)

\* ------------------------------------------------------------------------
\* urllib.robotparser.RobotFileParser, as far as the crawler uses it.
\* A parser is [last_checked, rules]: rules are the rule lines of the entry
\* for user agent "*", each [path, allowance].
\* ------------------------------------------------------------------------
FreshParser == [last_checked |-> FALSE, rules |-> <<>>]

\* RobotFileParser.parse: one Disallow rule line per listed path
ParseRobots(disallowed) ==
    [last_checked |-> TRUE,
     rules |-> [i \in 1..Len(disallowed) |->
                   [path |-> disallowed[i], allowance |-> FALSE]]]

\* urllib.parse.quote of one token: "*" is not a safe character
QuoteToken(tok) == IF tok = "*" THEN "%2A" ELSE tok

QuotePath(path) == [i \in 1..Len(path) |-> QuoteToken(path[i])]

\* str.startswith on token sequences; the last token of the prefix matches
\* when it is empty (the prefix ends in "/") or equal
StartsWith(s, prefix) ==
    \/ prefix = <<>>
    \/ /\ Len(s) >= Len(prefix)
       /\ \A i \in 1..(Len(prefix) - 1) : s[i] = prefix[i]
       /\ prefix[Len(prefix)] \in {"", s[Len(prefix)]}

\* RuleLine.applies_to
RuleApplies(rule, filename) ==
    rule.path = <<"*">> \/ StartsWith(filename, rule.path)

\* Entry.allowance: the first rule line that applies decides
RECURSIVE Allowance(_, _)
Allowance(rules, filename) ==
    IF rules = <<>> THEN TRUE
    ELSE IF RuleApplies(Head(rules), filename) THEN Head(rules).allowance
    ELSE Allowance(Tail(rules), filename)

\* RobotFileParser.can_fetch(useragent, url).  Every entry of the model is
\* the "*" entry, which applies to any useragent.
CanFetch(parser, useragent, url) ==
    IF ~parser.last_checked THEN FALSE
    ELSE LET quoted == QuotePath(UrlPath(url))
             filename == IF quoted = <<>> THEN <<"", "">> ELSE quoted
         IN Allowance(parser.rules, filename)

\* ------------------------------------------------------------------------
\* Time.  A datetime is [t, us]: whole seconds and the microsecond part.
\* A stored timestamp is the text the store holds: [t, us, sep] with the
\* date/time separator, "T" from datetime.isoformat and " " from SQLite's
\* DATETIME().
\* ------------------------------------------------------------------------
Iso(dt) == [t |-> dt.t, us |-> dt.us, sep |-> "T"]

FromIso(text) == [t |-> text.t, us |-> text.us]

MinusSeconds(dt, n) == [t |-> dt.t - n, us |-> dt.us]

\* SQLite DATETIME(text, '-1 second'): "YYYY-MM-DD HH:MM:SS", whole seconds
SqlDatetimeMinusOneSecond(text) == [t |-> text.t - 1, us |-> 0, sep |-> " "]

SepRank(sep) == IF sep = " " THEN 0 ELSE 1

\* text comparison of two stored timestamps, as SQLite's "<" on TEXT
TextLess(a, b) ==
    LET da == a.t \div 86400
        db == b.t \div 86400
        ta == a.t % 86400
        tb == b.t % 86400
    IN \/ da < db
       \/ da = db /\ SepRank(a.sep) < SepRank(b.sep)
       \/ da = db /\ a.sep = b.sep /\ ta < tb
       \/ da = db /\ a.sep = b.sep /\ ta = tb /\ a.us < b.us

\* ------------------------------------------------------------------------
\* The store: page and link rows
\* ------------------------------------------------------------------------
SiteId == 1

\* another site of the same store, crawled by another Crawler
OtherSiteId == 2

EmptyHash == <<>>

\* sha3_256(json.dumps(links)).hexdigest(): injective in the link list
Sha3(links) == <<links>>

OldHash == Sha3(<<[url |-> <<"old">>, text |-> "old"]>>)

PageRows(pgs, site_id, url) ==
    {p \in pgs : p.site_id = site_id /\ p.url = url}

UpsertPageIdFresh(pgs, next_id, page) == next_id

\* the id RETURNING * gives back
UpsertPageId(pgs, next_id, page) ==
    LET old == PageRows(pgs, page.site_id, page.url)
    IN IF old = {} THEN next_id ELSE (CHOOSE p \in old : TRUE).id

UpsertPageUpdateOnly(pgs, next_id, page) ==
    LET old == PageRows(pgs, page.site_id, page.url)
    IN (pgs \ old) \cup
       {[p EXCEPT !.hash = page.hash,
                  !.crawl_time = Iso(page.crawl_time)] : p \in old}

UpsertPage(pgs, next_id, page) ==
    LET old == PageRows(pgs, page.site_id, page.url)
    IN IF old = {}
       THEN pgs \cup {[id |-> next_id, site_id |-> page.site_id,
                       url |-> page.url, hash |-> page.hash,
                       crawl_time |-> Iso(page.crawl_time),
                       error |-> page.error]}
       ELSE (pgs \ old) \cup
            {[p EXCEPT !.hash = page.hash,
                       !.crawl_time = Iso(page.crawl_time)] : p \in old}

UpdatePageHash(pgs, page_id, hash) ==
    {IF p.id = page_id THEN [p EXCEPT !.hash = hash] ELSE p : p \in pgs}

UpdatePageError(pgs, page_id, error) ==
    {IF p.id = page_id
     THEN [p EXCEPT !.error = Some(error),
                    !.crawl_time = SqlDatetimeMinusOneSecond(p.crawl_time)]
     ELSE p : p \in pgs}

LinkRows(lks, link) ==
    {l \in lks : l.site_id = link.site_id /\ l.page_id = link.page_id
                 /\ l.url = link.url}

UpsertLink(lks, link) ==
    LET old == LinkRows(lks, link)
    IN IF old = {}
       THEN lks \cup {[site_id |-> link.site_id, page_id |-> link.page_id,
                       url |-> link.url, text |-> link.text,
                       score |-> link.score,
                       crawl_time |-> Iso(link.crawl_time)]}
       ELSE (lks \ old) \cup
            {[l EXCEPT !.score = link.score,
                       !.crawl_time = Iso(link.crawl_time)] : l \in old}

RECURSIVE UpsertLinks(_, _)
UpsertLinks(lks, db_links) ==
    IF db_links = <<>> THEN lks
    ELSE UpsertLinks(UpsertLink(lks, Head(db_links)), Tail(db_links))

DeleteStalePages(pgs, before_time) ==
    {p \in pgs : ~TextLess(p.crawl_time, Iso(before_time))}

\* FOREIGN KEY (page_id) REFERENCES page(id) ON DELETE CASCADE
CascadeLinks(lks, pgs) == {l \in lks : \E p \in pgs : p.id = l.page_id}

DeleteStaleLinks(lks, before_time) ==
    {l \in lks : ~TextLess(l.crawl_time, Iso(before_time))}

\* ------------------------------------------------------------------------
\* Runs: the configuration of a Crawler and the environment it meets
\* ------------------------------------------------------------------------
RunStart == [t |-> 200000, us |-> 0]

\* robots.txt of the site: one Disallow line for /private/
RobotsTxt == <<(<<"", "private", "">>)>>

DefaultRun ==
    [seed_url |-> UrlRoot, max_count |-> None, max_depth |-> None,
     max_components |-> None, stale_hours |-> 24,
     crawl_time |-> RunStart, robots_txt |-> Some(RobotsTxt),
     access_denied |-> FALSE, store |-> 0]

Runs ==
    {DefaultRun}
    \cup {[DefaultRun EXCEPT !.max_count = Some(c)] : c \in {0, 2, 3}}
    \cup {[DefaultRun EXCEPT !.max_depth = Some(d)] : d \in {0, 1, 2}}
    \cup {[DefaultRun EXCEPT !.max_components = Some(1), !.seed_url = u] :
             u \in {UrlRoot, UrlAB}}
    \cup {[DefaultRun EXCEPT !.robots_txt = None],
          [DefaultRun EXCEPT !.access_denied = TRUE],
          [DefaultRun EXCEPT !.stale_hours = 1]}
    \cup {[DefaultRun EXCEPT !.store = k, !.crawl_time.us = 500000,
                             !.stale_hours = h] : k \in {1, 2}, h \in {0, 24}}

\* a crawl of an earlier day left these rows
PriorTime == Iso([t |-> 100000, us |-> 250000])

PriorPage(id, url, hash, error) ==
    [id |-> id, site_id |-> SiteId, url |-> url, hash |-> hash,
     crawl_time |-> PriorTime, error |-> error]

PriorPages(k) ==
    CASE k = 1 -> {PriorPage(1, UrlRoot, Sha3(SiteLinks(UrlRoot)), None),
                   PriorPage(2, UrlA, OldHash, None)}
      [] k = 2 -> {PriorPage(1, UrlRoot, EmptyHash, Some("old error")),
                   PriorPage(2, UrlA, Sha3(SiteLinks(UrlA)), None),
                   [PriorPage(3, UrlExt, OldHash, None)
                        EXCEPT !.site_id = OtherSiteId]}
      [] OTHER -> {}

PriorLinks(k) ==
    CASE k = 1 -> {[site_id |-> SiteId, page_id |-> 1, url |-> UrlA,
                    text |-> "a", score |-> 1, crawl_time |-> PriorTime]}
      [] k = 2 -> {[site_id |-> OtherSiteId, page_id |-> 3, url |-> UrlExt,
                    text |-> "z", score |-> 1, crawl_time |-> PriorTime]}
      [] OTHER -> {}

\* ------------------------------------------------------------------------
\* The classifier adapter (src/aiplay/ai/inspect.py) and the ranking.
\* A response text is None when it is not JSON, else Some(v) with v the JSON
\* value it spells.  A JSON value is [type, elems, url, text, keywords]:
\* elems are the elements of a list; url, text and keywords are the optional
\* members of an object, each a member value [type, s, kws].  A raw score is
\* a whole number of tenths, a weight a whole number of hundredths, so a
\* weighted score is a whole number of thousandths.
\* ------------------------------------------------------------------------
\* how many responses the provider has ready for one inspect_links call
MaxResponses == 3

AIModels == {"GEMINI", "OPENAI"}

\* the vocabulary with its weights (a part of it)
KEYWORDS ==
    [k \in {"department", "finance", "budget", "bid"} |->
        CASE k = "department" -> 70
          [] k = "bid" -> 80
          [] OTHER -> 100]

JStr(s) == [type |-> "str", s |-> s, kws |-> <<>>]

\* an object of keyword -> number, as the sequence of its members
JMap(kws) == [type |-> "dict", s |-> "", kws |-> kws]

JObject(url, text, keywords) ==
    [type |-> "dict", elems |-> <<>>, url |-> url, text |-> text,
     keywords |-> keywords]

JList(elems) ==
    [type |-> "list", elems |-> elems, url |-> None, text |-> None,
     keywords |-> None]

JNumber ==
    [type |-> "num", elems |-> <<>>, url |-> None, text |-> None,
     keywords |-> None]

JString ==
    [type |-> "str", elems |-> <<>>, url |-> None, text |-> None,
     keywords |-> None]

Kw(k, v) == [k |-> k, v |-> v]

ObjFinance ==
    JObject(Some(JStr("u1")), Some(JStr("t1")),
            Some(JMap(<<Kw("finance", 10), Kw("budget", 10)>>)))

ObjTaxes ==
    JObject(Some(JStr("u1")), Some(JStr("t1")),
            Some(JMap(<<Kw("taxes", 10)>>)))

ObjMixed ==
    JObject(Some(JStr("u2")), Some(JStr("t2")),
            Some(JMap(<<Kw("taxes", 10), Kw("department", 5)>>)))

ObjNoText ==
    JObject(Some(JStr("u3")), None, Some(JMap(<<Kw("bid", 9)>>)))

ObjNoKeywords ==
    JObject(Some(JStr("u4")), Some(JStr("t4")), Some(JMap(<<>>)))

\* the response texts the model may give
Docs ==
    {None, Some(JNumber), Some(ObjFinance), Some(ObjTaxes), Some(ObjNoText),
     Some(JList(<<>>)), Some(JList(<<ObjFinance>>)),
     Some(JList(<<ObjTaxes>>)), Some(JList(<<ObjMixed, ObjNoKeywords>>)),
     Some(JList(<<ObjFinance, ObjNoText>>))}

\* LinkKeywords.model_validate(item) does not raise
Validates(item) ==
    /\ item.type = "dict"
    /\ item.url # None /\ item.url[1].type = "str"
    /\ item.text # None /\ item.text[1].type = "str"
    /\ item.keywords # None /\ item.keywords[1].type = "dict"

\* the LinkKeywords that model_validate builds
ModelValidate(item) ==
    [url |-> item.url[1].s, text |-> item.text[1].s,
     keywords |-> item.keywords[1].kws]

ItemsOfUnpromoted(unparsed) ==
    IF unparsed.type = "dict" THEN <<JString>> ELSE unparsed.elems

\* what "for item in unparsed" iterates: a single object is wrapped in a
\* list first
ItemsOf(unparsed) ==
    IF unparsed.type = "dict" THEN <<unparsed>> ELSE unparsed.elems

Raised(error) == [error |-> error, kw_links |-> <<>>]

Parsed(kw_links) == [error |-> "", kw_links |-> kw_links]

\* inspect_links.parse_result: the exception it raises or the list it returns
ParseResult(result) ==
    IF result = None THEN Raised("JSONDecodeError")
    ELSE IF result[1].type \notin {"dict", "list"} THEN Raised("TypeError")
    ELSE LET items == ItemsOf(result[1])
         IN IF \E i \in 1..Len(items) : ~Validates(items[i])
            THEN Raised("ValidationError")
            ELSE Parsed([i \in 1..Len(items) |-> ModelValidate(items[i])])

\* inspect_links.check_invalid
CheckInvalid(kw_links) ==
    {kw \in UNION {{kw_links[i].keywords[j].k :
                       j \in 1..Len(kw_links[i].keywords)} :
                   i \in 1..Len(kw_links)} : kw \notin DOMAIN KEYWORDS}

NeedsVocabularyRetryAlways(kw_links) == TRUE

\* if invalid_keywords := check_invalid(kw_links)
NeedsVocabularyRetry(kw_links) == CheckInvalid(kw_links) # {}

CanContinueAlways(prev_id) == TRUE

\* if prev_id: the empty string is false
CanContinue(prev_id) == prev_id # <<>>

\* response.id of the n-th query
ResponseId(n) == <<"resp", n>>

WeightOfVocabularyOnly(k, v) ==
    IF k \in DOMAIN KEYWORDS THEN v * KEYWORDS[k] ELSE 0

\* v * KEYWORDS[k] if k in KEYWORDS else v * 0.25, in thousandths
WeightOf(k, v) ==
    IF k \in DOMAIN KEYWORDS THEN v * KEYWORDS[k] ELSE v * 25

Weighted(keywords) ==
    [i \in 1..Len(keywords) |->
        [k |-> keywords[i].k,
         score |-> WeightOf(keywords[i].k, keywords[i].v)]]

\* kw_sorted.sort(key=score, reverse=True): high to low, equal scores stay
\* in their order
RECURSIVE InsertSorted(_, _)
InsertSorted(e, sorted) ==
    IF sorted = <<>> THEN <<e>>
    ELSE IF Head(sorted).score >= e.score
         THEN <<Head(sorted)>> \o InsertSorted(e, Tail(sorted))
         ELSE <<e>> \o sorted

RECURSIVE SortByScore(_)
SortByScore(kws) ==
    IF kws = <<>> THEN <<>>
    ELSE InsertSorted(kws[Len(kws)],
                      SortByScore(SubSeq(kws, 1, Len(kws) - 1)))

RECURSIVE Pow2(_)
Pow2(n) == IF n = 0 THEN 1 ELSE 2 * Pow2(n - 1)

\* the sum of score / 2**i over the n sorted scores, times 2**(n-1)
RECURSIVE TotalScore(_, _)
TotalScore(sorted, n) ==
    IF sorted = <<>> THEN 0
    ELSE Head(sorted).score * Pow2(n - 1) + TotalScore(Tail(sorted), n - 1)

\* a keyword as the string of its symbols: a symbol is ";" or a run of
\* other characters
Symbols(k) ==
    CASE k = "tax;bid" -> <<"tax", ";", "bid">>
      [] k = "" -> <<>>
      [] OTHER -> <<k>>

\* KW_DELIM.join(names)
RECURSIVE JoinKeywords(_)
JoinKeywords(names) ==
    IF names = <<>> THEN <<>>
    ELSE IF Len(names) = 1 THEN Symbols(names[1])
    ELSE Symbols(Head(names)) \o <<";">> \o JoinKeywords(Tail(names))

\* KW_DELIM + KW_DELIM.join(names) + KW_DELIM
KwStr(names) == <<";">> \o JoinKeywords(names) \o <<";">>

KeywordRankingUnsorted(kw_link) ==
    LET kw_sorted == Weighted(kw_link.keywords)
        n == Len(kw_sorted)
    IN [kw_str |-> KwStr([i \in 1..n |-> kw_sorted[i].k]),
        total |-> [num |-> TotalScore(kw_sorted, n),
                   den |-> IF n = 0 THEN 1000 ELSE 1000 * Pow2(n - 1)]]

\* Crawler.keyword_ranking: the keyword string of the ranked keywords and
\* the total score as the fraction num / den
KeywordRanking(kw_link) ==
    LET kw_sorted == SortByScore(Weighted(kw_link.keywords))
        n == Len(kw_sorted)
    IN [kw_str |-> KwStr([i \in 1..n |-> kw_sorted[i].k]),
        total |-> [num |-> TotalScore(kw_sorted, n),
                   den |-> IF n = 0 THEN 1000 ELSE 1000 * Pow2(n - 1)]]

\* if score: a float is true unless it is zero
ScoreTruthy(total) == total.num # 0

\* how many keywords the classifier gives one link
MaxKeywords == 3

\* the keywords and raw scores (in tenths) the keyword maps are built from
RankKeys == {"finance", "budget", "bid", "taxes", "tax;bid"}

RawScores == {-5, 0, 10, 30}

\* a dict has every key once
DistinctKeys(keywords) ==
    \A i \in 1..Len(keywords), j \in 1..Len(keywords) :
        keywords[i].k = keywords[j].k => i = j

\* a keyword map LinkKeywords accepts, as the sequence of its items
KeywordMap(items) == [i \in DOMAIN items |-> Kw(items[i][1], items[i][2])]

OnExitAlwaysCommit(raised) == "committed"

\* Transaction.__exit__: commit if exc_type is None, else rollback
OnExit(raised) == IF raised THEN "rolled_back" ELSE "committed"

\* the table after the connection is closed
Durable(outcome, before, view) ==
    IF outcome = "committed" THEN view ELSE before

\* no page handle was opened
HandlesNone == [pc |-> "idle", opened |-> 0, closed |-> 0]

\* no Transaction is open
TxNone ==
    [state |-> "none", db_links |-> <<>>, i |-> 0, view |-> {},
     outcome |-> ""]

\* no link candidate is being normalized
NormIdle ==
    [base_url |-> <<>>, href |-> <<>>, max_params |-> None, pc |-> "idle",
     out |-> None, again |-> None]

\* ------------------------------------------------------------------------
\* extract_links: normalization of one candidate.  A href is a string of
\* symbols: "http" (the four characters), "s", ":", "/", "#", "?", "&", and
\* "p" (any other character)
\* ------------------------------------------------------------------------
MaxHrefLen == 4

HrefSymbols == {"http", "s", ":", "/", "#", "?", "&", "p"}

Hrefs == UNION {[1..n -> HrefSymbols] : n \in 0..MaxHrefLen}

\* f"{scheme}://{domain}" of an http site and of a site of another scheme
BaseUrls ==
    {<<"http", "s", ":", "/", "/", "p">>, <<"p", ":", "/", "/", "p">>}

MaxParams == {None, Some(0), Some(1), Some(2)}

\* str.startswith
HasPrefix(str, prefix) ==
    /\ Len(str) >= Len(prefix)
    /\ SubSeq(str, 1, Len(prefix)) = prefix

\* the index of the first sep in str, 0 if there is none
Find(str, sep) ==
    IF \E i \in 1..Len(str) : str[i] = sep
    THEN CHOOSE i \in 1..Len(str) :
             str[i] = sep /\ \A j \in 1..(i - 1) : str[j] # sep
    ELSE 0

\* str.split(sep)[0]
BeforeFirst(str, sep) ==
    IF Find(str, sep) = 0 THEN str ELSE SubSeq(str, 1, Find(str, sep) - 1)

\* str.split(sep, 1)[1]
AfterFirst(str, sep) == SubSeq(str, Find(str, sep) + 1, Len(str))

\* str.split(sep)
RECURSIVE Split(_, _)
Split(str, sep) ==
    IF Find(str, sep) = 0 THEN <<str>>
    ELSE <<BeforeFirst(str, sep)>> \o Split(AfterFirst(str, sep), sep)

\* sep.join(parts)
RECURSIVE Join(_, _)
Join(parts, sep) ==
    IF parts = <<>> THEN <<>>
    ELSE IF Len(parts) = 1 THEN parts[1]
    ELSE Head(parts) \o <<sep>> \o Join(Tail(parts), sep)

\* parts[:n]
Take(parts, n) == SubSeq(parts, 1, IF n < Len(parts) THEN n ELSE Len(parts))

AbsoluteAlways(base_url, href) == base_url \o href

\* make relative links absolute
Absolute(base_url, href) ==
    IF HasPrefix(href, <<"/">>) THEN base_url \o href ELSE href

\* the max_params policy
LimitParams(href, max_params) ==
    IF max_params = None THEN href
    ELSE IF max_params[1] > 0 /\ Find(href, "?") # 0
         THEN BeforeFirst(href, "?") \o <<"?">>
                  \o Join(Take(Split(AfterFirst(href, "?"), "&"),
                               max_params[1]), "&")
         ELSE BeforeFirst(href, "?")

\* the url of the clean link of a candidate, None if it is skipped
Normalize(base_url, href, max_params) ==
    IF HasPrefix(href, <<"#">>) THEN None
    ELSE LET abs == Absolute(base_url, href)
         IN IF ~HasPrefix(abs, <<"http">>)
                   /\ ~HasPrefix(abs, <<"http", "s">>)
            THEN None
            ELSE Some(LimitParams(BeforeFirst(abs, "#"), max_params))

\* the locals of an inspect_links call and of the process_links around it
AiIdle ==
    [model |-> "OPENAI", responses |-> <<>>, pc |-> "idle",
     prev_id |-> <<>>, ids |-> <<>>, queries |-> <<>>, orig_result |-> None,
     kw_links |-> <<>>, error |-> ""]

\* ------------------------------------------------------------------------
\* State
\* ------------------------------------------------------------------------
VARIABLES
    cfg,            \* the Crawler's configuration and environment
    robots,         \* self.robots
    cache,          \* self.cache: the page rows as of init_db
    queue,          \* self.queue: sequence of <<url, depth>>
    unfinished,     \* self.queue.unfinished_tasks
    visited,        \* self.visited
    active_workers, \* self.active_workers
    count,          \* self.count
    pc,             \* position of each worker thread
    cur,            \* locals of each worker: url, depth, links, hash, page id
    runPc,          \* position of run()
    pages,          \* table page
    links,          \* table link
    nextPageId,     \* AUTOINCREMENT of page.id
    faults,         \* how many renders and link-processing calls failed
    dequeued,       \* history: <<url, times handed to process_url>>
    level,          \* history: <<url, hops from the seed>> of every enqueued url
    rendered,       \* history: urls a page handle was opened for
    touched,        \* history: ids of the page rows written in this run
    classified,     \* history: urls whose links were given to inspect_links
    ai,             \* the inspect_links call that is followed in detail
    tx,             \* the Transaction of the process_links followed in detail
    norm,           \* the link candidate extract_links is followed on
    handles         \* the page handles of the render followed in detail

frontier == <<queue, unfinished, visited, active_workers, count>>
store == <<pages, links, nextPageId>>
history == <<faults, dequeued, level, rendered, touched, classified>>
aux == <<ai, tx, norm, handles>>
vars == <<cfg, robots, cache, queue, unfinished, visited, active_workers,
          count, pc, cur, runPc, pages, links, nextPageId, faults, dequeued,
          level, rendered, touched, classified, ai, tx, norm, handles>>

NoTask == [url |-> <<>>, depth |-> 0, links |-> <<>>, hash |-> EmptyHash,
           page_id |-> 0, i |-> 0]

Init ==
    /\ cfg \in Runs
    /\ robots = FreshParser
    /\ cache = {}
    /\ queue = <<>>
    /\ unfinished = 0
    /\ visited = {}
    /\ active_workers = 0
    /\ count = 0
    /\ pc = [w \in Workers |-> "unstarted"]
    /\ cur = [w \in Workers |-> NoTask]
    /\ runPc = "init"
    /\ pages = PriorPages(cfg.store)
    /\ links = PriorLinks(cfg.store)
    /\ nextPageId = Cardinality(PriorPages(cfg.store)) + 1
    /\ faults = 0
    /\ dequeued = {}
    /\ level = {}
    /\ rendered = {}
    /\ touched = {}
    /\ classified = {}
    /\ ai = AiIdle
    /\ tx = TxNone
    /\ norm = NormIdle
    /\ handles = HandlesNone

\* ------------------------------------------------------------------------
\* Crawler: admission
\* ------------------------------------------------------------------------
\* Python truth value of an optional int: None and 0 are false
Truthy(opt) == opt # None /\ opt[1] # 0

\* Crawler.robot_allowed: self.robots.can_fetch(url, "*")
RobotAllowed(parser, url) == CanFetch(parser, url, <<"*">>)

SameDomain(url, domain) == Netloc(url) = domain

WithinComponentsOffByOne(url, max_components) ==
    max_components = None \/ NumComponents(url) <= max_components[1] + 1

WithinComponents(url, max_components) ==
    max_components = None \/ NumComponents(url) <= max_components[1]

\* Crawler.allowed_to_crawl
AllowedToCrawl(url) ==
    /\ RobotAllowed(robots, url)
    /\ SameDomain(url, Netloc(cfg.seed_url))
    /\ WithinComponents(url, cfg.max_components)

CountCapHit(max_count, cnt) == Truthy(max_count) /\ cnt >= max_count[1]

DepthCapHit(max_depth, depth) == Truthy(max_depth) /\ depth > max_depth[1]

FirstTimeSeenAlways(norm_url, seen) == TRUE

\* if norm_url not in self.visited
FirstTimeSeen(norm_url, seen) == norm_url \notin seen

\* the depth add_to_queue stores with the url
StoredDepth(depth) == depth + 1

\* condition.notify_all(): every thread in condition.wait() is woken
NotifyAll(pcs) ==
    [w \in Workers |-> IF pcs[w] = "waiting" THEN "loop" ELSE pcs[w]]

CountedNothing(cnt) == cnt

\* self.count += 1
Counted(cnt) == cnt + 1

\* what add_to_queue returns
AddToQueueResult(norm_url, depth) ==
    /\ ~CountCapHit(cfg.max_count, count)
    /\ ~DepthCapHit(cfg.max_depth, depth)
    /\ FirstTimeSeen(norm_url, visited)

\* Crawler.add_to_queue, one critical section; pcs are the thread positions
\* the caller leaves behind, lvl the hops of norm_url from the seed
AddToQueue(norm_url, depth, pcs, lvl) ==
    IF AddToQueueResult(norm_url, depth)
    THEN /\ visited' = visited \cup {norm_url}
         /\ queue' = Append(queue, <<norm_url, StoredDepth(depth)>>)
         /\ unfinished' = unfinished + 1
         /\ pc' = NotifyAll(pcs)
         /\ count' = Counted(count)
         /\ level' = level \cup {<<norm_url, lvl>>}
    ELSE /\ UNCHANGED <<visited, queue, unfinished, count, level>>
         /\ pc' = pcs

LevelOf(url) == (CHOOSE e \in level : e[1] = url)[2]

\* ------------------------------------------------------------------------
\* Crawler.run
\* ------------------------------------------------------------------------
\* init_robots, init_db, add_to_queue(seed_url, 0), and the threads start
RunBegin ==
    /\ runPc = "init"
    /\ robots' = IF cfg.robots_txt = None THEN FreshParser
                 ELSE ParseRobots(cfg.robots_txt[1])
    /\ cache' = {p \in pages : p.site_id = SiteId}
    /\ AddToQueue(cfg.seed_url, 0, [w \in Workers |-> "start"], 0)
    /\ runPc' = "queue_join"
    /\ UNCHANGED <<aux, cfg, active_workers, cur, store, faults, dequeued,
                   rendered, touched, classified>>

\* self.queue.join() returns
RunQueueJoin ==
    /\ runPc = "queue_join"
    /\ unfinished = 0
    /\ runPc' = "thread_join"
    /\ UNCHANGED <<aux, cfg, robots, cache, frontier, pc, cur, store, history>>

\* every t.join() returns, then the stale rows are deleted
RunReap ==
    /\ runPc = "thread_join"
    /\ \A w \in Workers : pc[w] \in {"exited", "crashed"}
    /\ LET stale_threshold ==
               MinusSeconds(cfg.crawl_time, cfg.stale_hours * 3600)
           kept == DeleteStalePages(pages, stale_threshold)
       IN /\ pages' = kept
          /\ links' = DeleteStaleLinks(CascadeLinks(links, kept),
                                       stale_threshold)
    /\ runPc' = "done"
    /\ UNCHANGED <<aux, cfg, robots, cache, frontier, pc, cur, nextPageId,
                   history>>

\* ------------------------------------------------------------------------
\* Crawler.worker
\* ------------------------------------------------------------------------
\* sync_playwright / determine_browser_type / BrowserCtx: the probe of the
\* base url finds a browser type, or raises and the thread ends
WorkerProbe(w) ==
    /\ pc[w] = "start"
    /\ pc' = [pc EXCEPT ![w] = IF cfg.access_denied THEN "crashed"
                                ELSE "loop"]
    /\ UNCHANGED <<aux, cfg, robots, cache, frontier, cur, runPc, store, history>>

MustWaitNever(q, active) == FALSE

\* while self.queue.empty() and self.active_workers > 0
MustWait(q, active) == q = <<>> /\ active > 0

\* if self.queue.empty() and self.active_workers == 0
CanShutDown(q, active) == q = <<>> /\ active = 0

\* condition.wait(): the lock is released until a notify wakes the thread
WorkerWait(w) ==
    /\ pc[w] = "loop"
    /\ MustWait(queue, active_workers)
    /\ pc' = [pc EXCEPT ![w] = "waiting"]
    /\ UNCHANGED <<aux, cfg, robots, cache, frontier, cur, runPc, store, history>>

WorkerExit(w) ==
    /\ pc[w] = "loop"
    /\ ~MustWait(queue, active_workers)
    /\ CanShutDown(queue, active_workers)
    /\ pc' = NotifyAll([pc EXCEPT ![w] = "exited"])
    /\ UNCHANGED <<aux, cfg, robots, cache, frontier, cur, runPc, store, history>>

ActiveOnDequeueNoCount(active) == active

\* self.active_workers += 1
ActiveOnDequeue(active) == active + 1

TimesHanded(hist, url) ==
    IF \E e \in hist : e[1] = url
    THEN (CHOOSE e \in hist : e[1] = url)[2] ELSE 0

Handed(hist, url) ==
    {e \in hist : e[1] # url} \cup {<<url, TimesHanded(hist, url) + 1>>}

\* url, depth = self.queue.get(); self.active_workers += 1
WorkerDequeue(w) ==
    /\ pc[w] = "loop"
    /\ ~MustWait(queue, active_workers)
    /\ ~CanShutDown(queue, active_workers)
    /\ queue # <<>>
    /\ cur' = [cur EXCEPT ![w] = [NoTask EXCEPT !.url = Head(queue)[1],
                                                !.depth = Head(queue)[2]]]
    /\ queue' = Tail(queue)
    /\ active_workers' = ActiveOnDequeue(active_workers)
    /\ dequeued' = Handed(dequeued, Head(queue)[1])
    /\ pc' = [pc EXCEPT ![w] = "process"]
    /\ UNCHANGED <<aux, cfg, robots, cache, unfinished, visited, count, runPc,
                   store, faults, level, rendered, touched, classified>>

\* finally: task_done, active_workers -= 1, notify_all
WorkerFinally(w) ==
    /\ pc[w] = "finally"
    /\ unfinished' = unfinished - 1
    /\ active_workers' = active_workers - 1
    /\ pc' = NotifyAll([pc EXCEPT ![w] = "loop"])
    /\ cur' = [cur EXCEPT ![w] = NoTask]
    /\ UNCHANGED <<aux, cfg, robots, cache, queue, visited, count, runPc, store,
                   history>>

\* ------------------------------------------------------------------------
\* Crawler.process_url
\* ------------------------------------------------------------------------
DocNames == {"r.pdf"}

LowerUnchanged(tok) == tok

\* str.lower of the last token
Lower(tok) == IF tok = "r.PDF" THEN "r.pdf" ELSE tok

\* url.lower().endswith(DOC_EXTENSIONS)
IsDocument(url) == Lower(url[Len(url)]) \in DocNames

\* where process_url goes once the page's links are dealt with
AfterLinks(lks) == IF lks = <<>> THEN "finally" ELSE "enqueue"

\* a document url: log and return
ProcessSkipDocument(w) ==
    /\ pc[w] = "process"
    /\ IsDocument(cur[w].url)
    /\ pc' = [pc EXCEPT ![w] = "finally"]
    /\ UNCHANGED <<aux, cfg, robots, cache, frontier, cur, runPc, store, history>>

AfterRaiseUncaught == "crashed"

\* process_url raises: except Exception prints, the finally block runs
AfterRaise == "finally"

\* PageCtx / extract_links raise: the error row is upserted, then raise
RenderRaises(w) ==
    /\ pc[w] = "process"
    /\ ~IsDocument(cur[w].url)
    /\ faults < MaxFaults
    /\ faults' = faults + 1
    /\ LET page == [site_id |-> SiteId, url |-> cur[w].url,
                    hash |-> EmptyHash,
                    crawl_time |-> MinusSeconds(cfg.crawl_time, 1),
                    error |-> Some("render failed")]
       IN /\ pages' = UpsertPage(pages, nextPageId, page)
          /\ nextPageId' = IF PageRows(pages, SiteId, cur[w].url) = {}
                           THEN nextPageId + 1 ELSE nextPageId
          /\ touched' = touched \cup {UpsertPageId(pages, nextPageId, page)}
    /\ rendered' = rendered \cup {cur[w].url}
    /\ pc' = [pc EXCEPT ![w] = AfterRaise]
    /\ UNCHANGED <<cfg, robots, cache, frontier, cur, runPc, links, dequeued,
                   level, classified>>

ProcessRenderError(w) == RenderRaises(w) /\ UNCHANGED aux

HashAtUpsertFinal(hash) == hash

\* the hash the page row is upserted with before its links are processed
HashAtUpsert(hash) == EmptyHash

\* the page renders: links and hash are computed, the row is upserted with
\* an empty hash
RenderReturns(w) ==
    /\ pc[w] = "process"
    /\ ~IsDocument(cur[w].url)
    /\ LET page == [site_id |-> SiteId, url |-> cur[w].url,
                    hash |-> HashAtUpsert(Sha3(SiteLinks(cur[w].url))),
                    crawl_time |-> cfg.crawl_time, error |-> None]
           found == SiteLinks(cur[w].url)
       IN /\ pages' = UpsertPage(pages, nextPageId, page)
          /\ nextPageId' = IF PageRows(pages, SiteId, cur[w].url) = {}
                           THEN nextPageId + 1 ELSE nextPageId
          /\ touched' = touched \cup {UpsertPageId(pages, nextPageId, page)}
          /\ cur' = [cur EXCEPT ![w].links = found,
                                ![w].hash = Sha3(found),
                                ![w].page_id =
                                    UpsertPageId(pages, nextPageId, page),
                                ![w].i = 1]
    /\ rendered' = rendered \cup {cur[w].url}
    /\ pc' = [pc EXCEPT ![w] = "links"]
    /\ UNCHANGED <<cfg, robots, cache, frontier, runPc, links, faults,
                   dequeued, level, classified>>

ProcessRenderOk(w) == RenderReturns(w) /\ UNCHANGED aux

SameHashOrUnfinished(existing, hash) ==
    existing = hash \/ existing = EmptyHash

\* existing_page.hash == hash
SameHash(existing, hash) == existing = hash

UnchangedIgnored(url, hash) == FALSE

\* existing_page and existing_page.hash == hash
Unchanged(url, hash) ==
    \E p \in cache : p.url = url /\ SameHash(p.hash, hash)

\* the page is unchanged: process_links is not called
ProcessSkipUnchanged(w) ==
    /\ pc[w] = "links"
    /\ Unchanged(cur[w].url, cur[w].hash)
    /\ pc' = [pc EXCEPT ![w] = "hash"]
    /\ UNCHANGED <<aux, cfg, robots, cache, frontier, cur, runPc, store, history>>

\* the score keyword_ranking gives the classifier's answer for a link: the
\* classifier finds no keyword in these link texts
Score(link) == IF link.text \in {"z", "r"} THEN 0 ELSE 1

\* the Link rows process_links builds: links that score 0 are dropped
RECURSIVE DbLinks(_, _)
DbLinks(page_id, found) ==
    IF found = <<>> THEN <<>>
    ELSE LET rest == DbLinks(page_id, Tail(found))
             kw_link == Head(found)
         IN IF Score(kw_link) # 0
            THEN <<[site_id |-> SiteId, page_id |-> page_id,
                    url |-> kw_link.url, text |-> kw_link.text,
                    score |-> Score(kw_link),
                    crawl_time |-> cfg.crawl_time]>> \o rest
            ELSE rest

\* process_links returns: the Link rows are upserted in one transaction
ProcessLinksOk(w) ==
    /\ pc[w] = "links"
    /\ ~Unchanged(cur[w].url, cur[w].hash)
    /\ links' = IF cur[w].links = <<>> THEN links
                 ELSE UpsertLinks(links, DbLinks(cur[w].page_id, cur[w].links))
    /\ classified' = IF cur[w].links = <<>> THEN classified
                      ELSE classified \cup {cur[w].url}
    /\ pc' = [pc EXCEPT ![w] = "hash"]
    /\ UNCHANGED <<aux, cfg, robots, cache, frontier, cur, runPc, pages,
                   nextPageId, faults, dequeued, level, rendered, touched>>

\* process_links raises (classifier or store): update_page_error
ProcessLinksError(w) ==
    /\ pc[w] = "links"
    /\ ~Unchanged(cur[w].url, cur[w].hash)
    /\ cur[w].links # <<>>
    /\ faults < MaxFaults
    /\ faults' = faults + 1
    /\ classified' = classified \cup {cur[w].url}
    /\ pages' = UpdatePageError(pages, cur[w].page_id, "links failed")
    /\ pc' = [pc EXCEPT ![w] = AfterLinks(cur[w].links)]
    /\ UNCHANGED <<aux, cfg, robots, cache, frontier, cur, runPc, links,
                   nextPageId, dequeued, level, rendered, touched>>

\* update_page_hash
ProcessUpdateHash(w) ==
    /\ pc[w] = "hash"
    /\ pages' = UpdatePageHash(pages, cur[w].page_id, cur[w].hash)
    /\ pc' = [pc EXCEPT ![w] = AfterLinks(cur[w].links)]
    /\ UNCHANGED <<aux, cfg, robots, cache, frontier, cur, runPc, links,
                   nextPageId, history>>

\* one round of "for link in links": allowed_to_crawl, then add_to_queue
ProcessEnqueue(w) ==
    /\ pc[w] = "enqueue"
    /\ LET i == cur[w].i
           link == cur[w].links[i]
           pcs == [pc EXCEPT ![w] = IF i = Len(cur[w].links)
                                    THEN "finally" ELSE "enqueue"]
       IN /\ IF AllowedToCrawl(link.url)
             THEN AddToQueue(link.url, cur[w].depth, pcs,
                             LevelOf(cur[w].url) + 1)
             ELSE /\ pc' = pcs
                  /\ UNCHANGED <<visited, queue, unfinished, count, level>>
          /\ cur' = [cur EXCEPT ![w].i = i + 1]
    /\ UNCHANGED <<aux, cfg, robots, cache, active_workers, runPc, store,
                   faults, dequeued, rendered, touched, classified>>

\* ------------------------------------------------------------------------
\* The crawler as a whole
\* ------------------------------------------------------------------------
WorkerStep(w) ==
    \/ WorkerProbe(w)
    \/ WorkerWait(w)
    \/ WorkerExit(w)
    \/ WorkerDequeue(w)
    \/ ProcessSkipDocument(w)
    \/ ProcessRenderError(w)
    \/ ProcessRenderOk(w)
    \/ ProcessSkipUnchanged(w)
    \/ ProcessLinksOk(w)
    \/ ProcessLinksError(w)
    \/ ProcessUpdateHash(w)
    \/ ProcessEnqueue(w)
    \/ WorkerFinally(w)

Next ==
    \/ RunBegin
    \/ RunQueueJoin
    \/ RunReap
    \/ \E w \in Workers : WorkerStep(w)

Spec == Init /\ [][Next]_vars

\* threads are scheduled fairly; run() goes on whenever it can
FairSpec ==
    /\ Spec
    /\ WF_vars(RunBegin \/ RunQueueJoin \/ RunReap)
    /\ \A w \in Workers : WF_vars(WorkerStep(w))

\* ------------------------------------------------------------------------
\* process_links with inspect_links and keyword_ranking in detail: one call
\* for the links of the seed page, over every model and response sequence
\* ------------------------------------------------------------------------
\* a worker has rendered the seed and upserted its row; the other workers
\* wait for work
InspectInit ==
    /\ cfg = DefaultRun
    /\ robots = ParseRobots(RobotsTxt)
    /\ cache = {}
    /\ queue = <<>>
    /\ unfinished = 1
    /\ visited = {UrlRoot}
    /\ active_workers = 1
    /\ count = 1
    /\ pc = [w \in Workers |-> IF w = 1 THEN "links" ELSE "waiting"]
    /\ cur = [w \in Workers |->
                 IF w = 1
                 THEN [url |-> UrlRoot, depth |-> 1,
                       links |-> SiteLinks(UrlRoot),
                       hash |-> Sha3(SiteLinks(UrlRoot)), page_id |-> 1,
                       i |-> 1]
                 ELSE NoTask]
    /\ runPc = "queue_join"
    /\ pages = {[id |-> 1, site_id |-> SiteId, url |-> UrlRoot,
                 hash |-> EmptyHash, crawl_time |-> Iso(RunStart),
                 error |-> None]}
    /\ links = {}
    /\ nextPageId = 2
    /\ faults = 0
    /\ dequeued = {<<UrlRoot, 1>>}
    /\ level = {<<UrlRoot, 0>>}
    /\ rendered = {UrlRoot}
    /\ touched = {1}
    /\ classified = {}
    /\ ai \in {[AiIdle EXCEPT !.model = m, !.responses = rs, !.pc = "start"] :
                  m \in AIModels, rs \in [1..MaxResponses -> Docs]}
    /\ tx = TxNone
    /\ norm = NormIdle
    /\ handles = HandlesNone

\* the response to the next query of the call
NextResponse == ai.responses[Len(ai.queries) + 1]

\* gemini_query(prompt) or openai_query(prompt)
AiOriginalQuery ==
    /\ ai.pc = "start"
    /\ LET id == IF ai.model = "OPENAI" THEN ResponseId(1) ELSE <<>>
       IN ai' = [ai EXCEPT !.queries = <<"original">>,
                           !.orig_result = NextResponse,
                           !.prev_id = id,
                           !.ids = <<id>>,
                           !.pc = "parse"]
    /\ classified' = classified \cup {cur[1].url}
    /\ UNCHANGED <<handles, tx, norm, cfg, robots, cache, frontier, pc, cur, runPc, store,
                   faults, dequeued, level, rendered, touched>>

\* parse_result(orig_result) returns
AiParsed ==
    /\ ai.pc = "parse"
    /\ ParseResult(ai.orig_result).error = ""
    /\ ai' = [ai EXCEPT !.kw_links = ParseResult(ai.orig_result).kw_links,
                        !.pc = "check"]
    /\ UNCHANGED <<handles, tx, norm, cfg, robots, cache, frontier, pc, cur, runPc, store,
                   history>>

\* except json.JSONDecodeError / except ValidationError
Caught(error) == error \in {"JSONDecodeError", "ValidationError"}

\* the retry after a response that is not JSON or not of the item shape:
\* one more query, and whatever its parse raises is raised
AiFormatRetry ==
    /\ ai.pc = "parse"
    /\ Caught(ParseResult(ai.orig_result).error)
    /\ CanContinue(ai.prev_id)
    /\ LET retry == ParseResult(NextResponse)
           id == ResponseId(Len(ai.queries) + 1)
       IN ai' = [ai EXCEPT !.queries = Append(@, "format"),
                           !.prev_id = id,
                           !.ids = Append(@, id),
                           !.kw_links = retry.kw_links,
                           !.error = retry.error,
                           !.pc = IF retry.error = "" THEN "check"
                                  ELSE "raised"]
    /\ UNCHANGED <<handles, tx, norm, cfg, robots, cache, frontier, pc, cur, runPc, store,
                   history>>

\* the first response's failure is raised: no continuation, or an exception
\* that neither except clause names
AiRaise ==
    /\ ai.pc = "parse"
    /\ ParseResult(ai.orig_result).error # ""
    /\ ~(Caught(ParseResult(ai.orig_result).error) /\ CanContinue(ai.prev_id))
    /\ ai' = [ai EXCEPT !.error = ParseResult(ai.orig_result).error,
                        !.pc = "raised"]
    /\ UNCHANGED <<handles, tx, norm, cfg, robots, cache, frontier, pc, cur, runPc, store,
                   history>>

\* the retry after unknown keywords: one more query; its parse is returned,
\* unknown keywords and all, or its exception raised
AiVocabularyRetry ==
    /\ ai.pc = "check"
    /\ NeedsVocabularyRetry(ai.kw_links)
    /\ LET retry == ParseResult(NextResponse)
       IN ai' = [ai EXCEPT !.queries = Append(@, "vocabulary"),
                           !.ids = Append(@, ResponseId(Len(ai.queries) + 1)),
                           !.kw_links = retry.kw_links,
                           !.error = retry.error,
                           !.pc = IF retry.error = "" THEN "returned"
                                  ELSE "raised"]
    /\ UNCHANGED <<handles, tx, norm, cfg, robots, cache, frontier, pc, cur, runPc, store,
                   history>>

\* return kw_links
AiReturn ==
    /\ ai.pc = "check"
    /\ ~NeedsVocabularyRetry(ai.kw_links)
    /\ ai' = [ai EXCEPT !.pc = "returned"]
    /\ UNCHANGED <<handles, tx, norm, cfg, robots, cache, frontier, pc, cur, runPc, store,
                   history>>

\* the Link rows process_links builds from the classifier's answer
RECURSIVE RankedLinks(_, _)
RankedLinks(page_id, kw_links) ==
    IF kw_links = <<>> THEN <<>>
    ELSE LET rest == RankedLinks(page_id, Tail(kw_links))
             kw_link == Head(kw_links)
             score == KeywordRanking(kw_link).total
         IN IF ScoreTruthy(score)
            THEN <<[site_id |-> SiteId, page_id |-> page_id,
                    url |-> kw_link.url, text |-> kw_link.text,
                    score |-> score, crawl_time |-> cfg.crawl_time]>>
                 \o rest
            ELSE rest

\* process_links after inspect_links returned: rank, upsert, return
AiProcessLinks ==
    /\ ai.pc = "returned"
    /\ pc[1] = "links"
    /\ links' = UpsertLinks(links, RankedLinks(cur[1].page_id, ai.kw_links))
    /\ ai' = [ai EXCEPT !.pc = "persisted"]
    /\ pc' = [pc EXCEPT ![1] = "hash"]
    /\ UNCHANGED <<handles, tx, norm, cfg, robots, cache, frontier, cur, runPc, pages,
                   nextPageId, history>>

\* inspect_links raised: process_url records the error
AiProcessLinksRaised ==
    /\ ai.pc = "raised"
    /\ pc[1] = "links"
    /\ pages' = UpdatePageError(pages, cur[1].page_id, ai.error)
    /\ ai' = [ai EXCEPT !.pc = "failed"]
    /\ pc' = [pc EXCEPT ![1] = AfterLinks(cur[1].links)]
    /\ UNCHANGED <<handles, tx, norm, cfg, robots, cache, frontier, cur, runPc, links,
                   nextPageId, history>>

InspectNext ==
    \/ AiOriginalQuery
    \/ AiParsed
    \/ AiFormatRetry
    \/ AiRaise
    \/ AiVocabularyRetry
    \/ AiReturn
    \/ AiProcessLinks
    \/ AiProcessLinksRaised

InspectSpec == InspectInit /\ [][InspectNext]_vars

\* ------------------------------------------------------------------------
\* process_links after the classifier answered, with its Transaction in
\* detail: the first link has any keyword map, the second {budget: 1.0}
\* ------------------------------------------------------------------------
KwLink(url, text, keywords) ==
    [url |-> url, text |-> text, keywords |-> keywords]

\* a worker has rendered the seed and upserted its row, and inspect_links
\* has returned
LinksInit ==
    /\ cfg = DefaultRun
    /\ robots = ParseRobots(RobotsTxt)
    /\ cache = {}
    /\ queue = <<>>
    /\ unfinished = 1
    /\ visited = {UrlRoot}
    /\ active_workers = 1
    /\ count = 1
    /\ pc = [w \in Workers |-> IF w = 1 THEN "links" ELSE "waiting"]
    /\ cur = [w \in Workers |->
                 IF w = 1
                 THEN [url |-> UrlRoot, depth |-> 1,
                       links |-> SiteLinks(UrlRoot),
                       hash |-> Sha3(SiteLinks(UrlRoot)), page_id |-> 1,
                       i |-> 1]
                 ELSE NoTask]
    /\ runPc = "queue_join"
    /\ pages = {[id |-> 1, site_id |-> SiteId, url |-> UrlRoot,
                 hash |-> EmptyHash, crawl_time |-> Iso(RunStart),
                 error |-> None]}
    /\ links = {}
    /\ nextPageId = 2
    /\ faults = 0
    /\ dequeued = {<<UrlRoot, 1>>}
    /\ level = {<<UrlRoot, 0>>}
    /\ rendered = {UrlRoot}
    /\ touched = {1}
    /\ classified = {UrlRoot}
    /\ \E n \in 0..MaxKeywords :
          \E items \in [1..n -> RankKeys \X RawScores] :
              /\ DistinctKeys(KeywordMap(items))
              /\ ai = [AiIdle EXCEPT
                         !.pc = "returned",
                         !.kw_links =
                             <<KwLink("u1", "t1", KeywordMap(items)),
                               KwLink("u2", "t2", <<Kw("budget", 10)>>)>>]
    /\ tx = TxNone
    /\ norm = NormIdle
    /\ handles = HandlesNone

\* the links are ranked and the Link rows built; with Transaction() as db
TxEnter ==
    /\ ai.pc = "returned"
    /\ tx.state = "none"
    /\ pc[1] = "links"
    /\ tx' = [state |-> "open",
              db_links |-> RankedLinks(cur[1].page_id, ai.kw_links),
              i |-> 1, view |-> links, outcome |-> ""]
    /\ ai' = [ai EXCEPT !.pc = "upserting"]
    /\ UNCHANGED <<handles, norm, cfg, robots, cache, frontier, pc, cur, runPc, store,
                   history>>

\* upsert_link(db, db_link): the connection sees the row, the table of the
\* other connections does not change
TxUpsertLink ==
    /\ tx.state = "open"
    /\ tx.i <= Len(tx.db_links)
    /\ tx' = [tx EXCEPT !.view = UpsertLink(@, tx.db_links[tx.i]),
                        !.i = @ + 1]
    /\ UNCHANGED <<handles, ai, norm, cfg, robots, cache, frontier, pc, cur, runPc,
                   store, history>>

\* upsert_link raises: the scope exits with the exception, process_links
\* raises and process_url records the error
TxUpsertRaises ==
    /\ tx.state = "open"
    /\ tx.i <= Len(tx.db_links)
    /\ tx' = [tx EXCEPT !.state = "closed", !.outcome = OnExit(TRUE)]
    /\ links' = Durable(OnExit(TRUE), links, tx.view)
    /\ pages' = UpdatePageError(pages, cur[1].page_id, "links failed")
    /\ ai' = [ai EXCEPT !.pc = "failed"]
    /\ pc' = [pc EXCEPT ![1] = AfterLinks(cur[1].links)]
    /\ UNCHANGED <<handles, norm, cfg, robots, cache, frontier, cur, runPc,
                   nextPageId, history>>

\* every upsert is done: the scope exits without an exception
TxExit ==
    /\ tx.state = "open"
    /\ tx.i > Len(tx.db_links)
    /\ tx' = [tx EXCEPT !.state = "closed", !.outcome = OnExit(FALSE)]
    /\ links' = Durable(OnExit(FALSE), links, tx.view)
    /\ ai' = [ai EXCEPT !.pc = "persisted"]
    /\ pc' = [pc EXCEPT ![1] = "hash"]
    /\ UNCHANGED <<handles, norm, cfg, robots, cache, frontier, cur, runPc, pages,
                   nextPageId, history>>

LinksNext ==
    \/ TxEnter
    \/ TxUpsertLink
    \/ TxUpsertRaises
    \/ TxExit

LinksSpec == LinksInit /\ [][LinksNext]_vars

\* ------------------------------------------------------------------------
\* extract_links on one candidate, and again on the url it produced
\* ------------------------------------------------------------------------
\* a worker has dequeued the seed and rendered it; a candidate was found
NormInit ==
    /\ cfg = DefaultRun
    /\ robots = ParseRobots(RobotsTxt)
    /\ cache = {}
    /\ queue = <<>>
    /\ unfinished = 1
    /\ visited = {UrlRoot}
    /\ active_workers = 1
    /\ count = 1
    /\ pc = [w \in Workers |-> IF w = 1 THEN "process" ELSE "waiting"]
    /\ cur = [w \in Workers |->
                 IF w = 1 THEN [NoTask EXCEPT !.url = UrlRoot, !.depth = 1]
                 ELSE NoTask]
    /\ runPc = "queue_join"
    /\ pages = {}
    /\ links = {}
    /\ nextPageId = 1
    /\ faults = 0
    /\ dequeued = {<<UrlRoot, 1>>}
    /\ level = {<<UrlRoot, 0>>}
    /\ rendered = {}
    /\ touched = {}
    /\ classified = {}
    /\ ai = AiIdle
    /\ tx = TxNone
    /\ norm \in {[NormIdle EXCEPT !.base_url = b, !.href = h,
                                  !.max_params = m, !.pc = "found"] :
                    b \in BaseUrls, h \in Hrefs, m \in MaxParams}
    /\ handles = HandlesNone

\* the candidate is normalized
NormalizeCandidate ==
    /\ norm.pc = "found"
    /\ norm' = [norm EXCEPT
                  !.out = Normalize(norm.base_url, norm.href, norm.max_params),
                  !.pc = "once"]
    /\ UNCHANGED <<handles, ai, tx, cfg, robots, cache, frontier, pc, cur, runPc,
                   store, history>>

\* the candidate was skipped: no clean link
NormalizeSkipped ==
    /\ norm.pc = "once"
    /\ norm.out = None
    /\ norm' = [norm EXCEPT !.pc = "skipped"]
    /\ UNCHANGED <<handles, ai, tx, cfg, robots, cache, frontier, pc, cur, runPc,
                   store, history>>

\* the url of the clean link is a candidate of a later page
NormalizeAgain ==
    /\ norm.pc = "once"
    /\ norm.out # None
    /\ norm' = [norm EXCEPT
                  !.again = Normalize(norm.base_url, norm.out[1],
                                      norm.max_params),
                  !.pc = "twice"]
    /\ UNCHANGED <<handles, ai, tx, cfg, robots, cache, frontier, pc, cur, runPc,
                   store, history>>

NormNext ==
    \/ NormalizeCandidate
    \/ NormalizeSkipped
    \/ NormalizeAgain

NormSpec == NormInit /\ [][NormNext]_vars

\* ------------------------------------------------------------------------
\* The render of process_url with its page handle in detail:
\* with PageCtx(browser, url) as ppage
\* ------------------------------------------------------------------------
\* run() has enqueued the seed, a worker has dequeued it, the other workers
\* have not probed yet or wait for work
RenderInit ==
    /\ cfg \in {run \in Runs : ~run.access_denied}
    /\ robots = IF cfg.robots_txt = None THEN FreshParser
                ELSE ParseRobots(cfg.robots_txt[1])
    /\ cache = {p \in PriorPages(cfg.store) : p.site_id = SiteId}
    /\ queue = <<>>
    /\ unfinished = 1
    /\ visited = {cfg.seed_url}
    /\ active_workers = 1
    /\ count = 1
    /\ \E w \in Workers, others \in {"start", "waiting"} :
          /\ pc = [v \in Workers |-> IF v = w THEN "process" ELSE others]
          /\ cur = [v \in Workers |->
                       IF v = w
                       THEN [NoTask EXCEPT !.url = cfg.seed_url,
                                           !.depth = StoredDepth(0)]
                       ELSE NoTask]
    /\ runPc = "queue_join"
    /\ pages = PriorPages(cfg.store)
    /\ links = PriorLinks(cfg.store)
    /\ nextPageId = Cardinality(PriorPages(cfg.store)) + 1
    /\ faults = 0
    /\ dequeued = {<<cfg.seed_url, 1>>}
    /\ level = {<<cfg.seed_url, 0>>}
    /\ rendered = {}
    /\ touched = {}
    /\ classified = {}
    /\ ai = AiIdle
    /\ tx = TxNone
    /\ norm = NormIdle
    /\ handles = HandlesNone

\* PageCtx.__init__: self._page = browser.new_page()
PageNew(w) ==
    /\ pc[w] = "process"
    /\ ~IsDocument(cur[w].url)
    /\ handles.pc = "idle"
    /\ handles' = [handles EXCEPT !.pc = "goto", !.opened = @ + 1]
    /\ UNCHANGED <<ai, tx, norm, cfg, robots, cache, frontier, pc, cur, runPc,
                   store, history>>

\* PageCtx.__init__: stealth_sync or goto raises (timeout, navigation
\* error); no PageCtx object exists, so no __exit__ runs
PageGotoRaises(w) ==
    /\ handles.pc = "goto"
    /\ handles' = [handles EXCEPT !.pc = "raised"]
    /\ RenderRaises(w)
    /\ UNCHANGED <<ai, tx, norm>>

\* PageCtx.__init__ returns and __enter__ hands out the page
PageGotoReturns(w) ==
    /\ pc[w] = "process"
    /\ handles.pc = "goto"
    /\ handles' = [handles EXCEPT !.pc = "body"]
    /\ UNCHANGED <<ai, tx, norm, cfg, robots, cache, frontier, pc, cur, runPc,
                   store, history>>

\* content() or extract_links raises inside the with block: __exit__ closes
\* the page
PageBodyRaises(w) ==
    /\ handles.pc = "body"
    /\ handles' = [handles EXCEPT !.pc = "raised", !.closed = @ + 1]
    /\ RenderRaises(w)
    /\ UNCHANGED <<ai, tx, norm>>

\* the with block ends: __exit__ closes the page, the row is upserted
PageBodyReturns(w) ==
    /\ handles.pc = "body"
    /\ handles' = [handles EXCEPT !.pc = "done", !.closed = @ + 1]
    /\ RenderReturns(w)
    /\ UNCHANGED <<ai, tx, norm>>

RenderNext ==
    \E w \in Workers :
        \/ PageNew(w)
        \/ PageGotoRaises(w)
        \/ PageGotoReturns(w)
        \/ PageBodyRaises(w)
        \/ PageBodyReturns(w)

RenderSpec == RenderInit /\ [][RenderNext]_vars

\* ------------------------------------------------------------------------
\* Properties
\* ------------------------------------------------------------------------
Domain == Netloc(cfg.seed_url)

\* C1: within one run the visited set only ever grows and no url is handed
\* to process_url (dequeued) more than once
C1_VisitedGrowsNoRepeat ==
    [][/\ visited \subseteq visited'
       /\ \A e \in dequeued' : e[2] <= 1]_vars

\* a worker has offered all links of /a, among them the already visited
\* seed, while the seed has been dequeued once
C1_Witness ==
    /\ \E w \in Workers : cur[w].url = UrlA /\ cur[w].i = 4
    /\ <<UrlRoot, 1>> \in dequeued
    /\ UrlAB \in visited

\* C2: a worker exits only when the queue is empty and active_workers is 0,
\* once a worker has exited no add_to_queue call enqueues a url, and
\* active_workers is decremented for a url only after every link of its page
\* has been offered to add_to_queue (or process_url returned early or raised)
C2_ExitOnlyWhenQuiescent ==
    [][/\ \A w \in Workers :
             (pc[w] # "exited" /\ pc'[w] = "exited")
                => (queue = <<>> /\ active_workers = 0)
       /\ (\E w \in Workers : pc[w] = "exited")
             => (visited' = visited /\ queue' = queue)
       /\ \A w \in Workers :
             (pc[w] = "finally" /\ active_workers' < active_workers)
                => cur[w].links = <<>> \/ cur[w].i = Len(cur[w].links) + 1]_vars

\* a worker has exited after the whole site was crawled
C2_Witness ==
    /\ \E w \in Workers : pc[w] = "exited"
    /\ \E w \in Workers : pc[w] # "exited"
    /\ {UrlRoot, UrlA, UrlAB, UrlPriv} \subseteq rendered

\* C3: every run terminates: every enqueued url is eventually dequeued,
\* every worker thread ends and run() gets to the end-of-run reap
C3_RunTerminates ==
    <>(/\ runPc = "done"
       /\ \A u \in visited : TimesHanded(dequeued, u) >= 1)

\* C4: with max_count set, the number of urls enqueued in the run (the seed
\* included) never exceeds max_count
C4_CountWithinMax ==
    cfg.max_count # None => count <= cfg.max_count[1]

\* C5: with max_depth D the seed is at depth 0, links of a depth-k page are
\* enqueued at depth k+1 only while k+1 <= D, so no url deeper than D is
\* ever enqueued
C5_DepthWithinMax ==
    cfg.max_depth # None =>
        /\ \A e \in level : e[2] <= cfg.max_depth[1]
        /\ \A e \in level : e[1] = cfg.seed_url => e[2] = 0

\* C6: every pair in the queue carries the url's own depth (0 for the seed,
\* k+1 for a link of a page of depth k), and no stored depth exceeds
\* max_depth
C6_StoredDepthIsOwnDepth ==
    \A i \in 1..Len(queue) :
        /\ queue[i][2] = LevelOf(queue[i][1])
        /\ cfg.max_depth # None => queue[i][2] <= cfg.max_depth[1]

\* the admission predicate as far as host and path components go
Admissible(url) ==
    /\ Netloc(url) = Domain
    /\ cfg.max_components # None
          => NumComponents(url) <= cfg.max_components[1]

\* C7 as stated: every url ever added to the frontier, the seed included,
\* has the seed's host and at most max_components path components
C7_EveryUrlAdmissible == \A u \in visited : Admissible(u)

\* C7: every url added to the frontier other than the seed has the seed's
\* host and at most max_components path components
C7_LinksAdmissible == \A u \in visited \ {cfg.seed_url} : Admissible(u)

\* with max_components 1, /a was enqueued and its link /a/b was turned down
C7_Witness ==
    /\ cfg.max_components = Some(1)
    /\ UrlA \in visited
    /\ UrlAB \notin visited
    /\ \E w \in Workers : cur[w].url = UrlA /\ cur[w].i = 4

\* robots.txt disallows the path for user agent "*"
Disallowed(url) ==
    /\ cfg.robots_txt # None
    /\ \E i \in 1..Len(cfg.robots_txt[1]) :
          StartsWith(UrlPath(url), cfg.robots_txt[1][i])

\* C8: no url under a path prefix that robots.txt disallows for "*" is ever
\* enqueued or rendered
C8_RobotsRespected == \A u \in visited \cup rendered : ~Disallowed(u)

C10_CrawlTimeOfWrittenRows ==
    \A p \in pages :
        p.id \in touched =>
            /\ FromIso(p.crawl_time) \in
                   {cfg.crawl_time, MinusSeconds(cfg.crawl_time, 1)}
            /\ FromIso(p.crawl_time) = MinusSeconds(cfg.crawl_time, 1)
                   => (p.error # None /\ p.hash = EmptyHash)

\* the page row with the given id
PageById(pgs, page_id) == {p \in pgs : p.id = page_id}

\* C11 as stated: from the moment a worker starts processing a url until
\* its link processing has completed without error, the page row of the url
\* has the empty hash
C11_EmptyFromDequeue ==
    \A w \in Workers :
        pc[w] \in {"process", "links", "hash"}
            => \A p \in PageRows(pages, SiteId, cur[w].url) :
                   p.hash = EmptyHash

\* C11: from the upsert_page that records the render of a url until its
\* link processing has completed without error the page row's hash is
\* empty; a hash becomes non-empty only through update_page_hash, after
\* process_links returned or was skipped as unchanged; a failure of the
\* render or of the link processing leaves the hash empty
C11_HashEmptyUntilFinalized ==
    [][/\ \A w \in Workers :
             pc'[w] \in {"links", "hash"}
                => \A p \in PageById(pages', cur'[w].page_id) :
                       p.hash = EmptyHash
       /\ \A q \in pages' :
             q.hash # EmptyHash
                => \/ \E p \in pages : p.id = q.id /\ p.hash = q.hash
                   \/ \E w \in Workers :
                         /\ pc[w] = "hash"
                         /\ pc'[w] # "hash"
                         /\ cur[w].page_id = q.id
                         /\ q.hash = cur[w].hash
       /\ \A w \in Workers :
             (pc[w] = "links" /\ pc'[w] \notin {"links", "hash"})
                => \A p \in PageById(pages', cur[w].page_id) :
                       p.hash = EmptyHash
       /\ \A w \in Workers :
             (pc[w] = "process" /\ pc'[w] = "finally"
              /\ ~IsDocument(cur[w].url))
                => \A p \in PageRows(pages', SiteId, cur[w].url) :
                       p.hash = EmptyHash]_vars

\* the seed was finalized with its hash while link processing of /a, whose
\* row held a hash of an earlier crawl, has failed and left its hash empty
C11_Witness ==
    /\ cfg.store = 1
    /\ \E p \in PageRows(pages, SiteId, UrlRoot) :
          p.id \in touched /\ p.hash = Sha3(SiteLinks(UrlRoot))
    /\ \E w \in Workers :
          /\ cur[w].url = UrlA
          /\ pc[w] = "enqueue"
          /\ \E p \in PageRows(pages, SiteId, UrlA) :
                p.hash = EmptyHash /\ p.error # None

\* C12: in every state of the store, during the link upserts of concurrent
\* workers and after the reap, every link row references a page row that
\* exists and has the link's site_id
C12_LinkReferencesPage ==
    \A l \in links :
        \E p \in pages : p.id = l.page_id /\ p.site_id = l.site_id

\* one worker has upserted the link rows of its page while another worker
\* is about to process the links of a different page
C12_Witness ==
    \E w1 \in Workers, w2 \in Workers :
        /\ pc[w1] = "hash"
        /\ pc[w2] = "links"
        /\ cur[w1].page_id # cur[w2].page_id
        /\ \E l \in links :
              l.page_id = cur[w1].page_id /\ FromIso(l.crawl_time) = cfg.crawl_time

\* run() is at the end-of-run reap
ReapStep == runPc = "thread_join" /\ runPc' = "done"

\* the page row was written and finalized by this run
FinalizedThisRun(p) ==
    /\ p.id \in touched
    /\ p.url \in rendered
    /\ p.hash # EmptyHash
    /\ FromIso(p.crawl_time) = cfg.crawl_time

\* C13: the reap deletes no link row whose page was dequeued and rendered
\* in this run, the links of a page skipped as unchanged included
C13_ReapKeepsReobserved ==
    [][ReapStep
         => \A l \in links :
               (\E p \in PageById(pages, l.page_id) : FinalizedThisRun(p))
                  => l \in links']_vars

\* a stored timestamp is earlier than a datetime
Before(text, dt) ==
    text.t < dt.t \/ (text.t = dt.t /\ text.us < dt.us)

\* C14: the reap removes exactly the page and link rows of the crawled site
\* whose crawl_time is before run_start - stale_hours: no row at or after
\* the threshold and no row of another site is removed
C14_ReapExactlyStaleOfSite ==
    [][ReapStep
         => LET threshold ==
                    MinusSeconds(cfg.crawl_time, cfg.stale_hours * 3600)
            IN /\ pages' = {p \in pages :
                              ~(p.site_id = SiteId
                                /\ Before(p.crawl_time, threshold))}
               /\ links' = {l \in links :
                              ~(l.site_id = SiteId
                                /\ Before(l.crawl_time, threshold))}]_vars

\* the worker is on a page whose link list hashes to the hash cached for it
OnUnchangedPage(w) ==
    \E p \in cache :
        p.url = cur[w].url /\ p.hash = cur[w].hash /\ p.hash # EmptyHash

\* C15: processing a page whose link list hashes to the non-empty hash
\* cached for it does not call the classifier and changes no link row;
\* afterwards there is exactly one page row for the url and its hash is the
\* one it had before the run
C15_UnchangedPageFrame ==
    [][\A w \in Workers :
          OnUnchangedPage(w) =>
             /\ (pc'[w] # pc[w] \/ cur'[w] # cur[w])
                   => (links' = links /\ classified' = classified)
             /\ cur[w].url \notin classified'
             /\ (pc[w] = "hash" /\ pc'[w] # "hash")
                   => /\ Cardinality(PageRows(pages', SiteId, cur[w].url)) = 1
                      /\ \A q \in PageRows(pages', SiteId, cur[w].url) :
                            /\ q.hash = cur[w].hash
                            /\ \E p \in cache : p.id = q.id /\ p.hash = q.hash]_vars

\* the unchanged seed has been processed: its row holds the old hash again
\* and the link row of the earlier crawl is as it was
C15_Witness ==
    /\ cfg.store = 1
    /\ \E w \in Workers :
          /\ cur[w].url = UrlRoot
          /\ pc[w] = "finally"
          /\ OnUnchangedPage(w)
    /\ \E p \in PageRows(pages, SiteId, UrlRoot) :
          p.id \in touched /\ p.hash = Sha3(SiteLinks(UrlRoot))
    /\ PriorLinks(1) \subseteq links

\* C16: when every browser profile yields "Access Denied" for the seed, the
\* run still completes and leaves a page row for the seed with an empty
\* hash, an error and crawl_time run_start - 1s, and no link rows
C16_AccessDeniedLeavesErrorRow ==
    cfg.access_denied =>
        <>(/\ runPc = "done"
           /\ links = {}
           /\ \E p \in PageRows(pages, SiteId, cfg.seed_url) :
                 /\ p.hash = EmptyHash
                 /\ p.error # None
                 /\ FromIso(p.crawl_time) = MinusSeconds(cfg.crawl_time, 1))

\* the kind of the query a step of inspect_links sends
Sends(kind) ==
    /\ Len(ai'.queries) = Len(ai.queries) + 1
    /\ ai'.queries = Append(ai.queries, kind)

\* C17: for any sequence of model responses inspect_links sends at most
\* three queries: the original one, at most one format retry, sent only
\* after the first response failed to parse as JSON or to validate, and at
\* most one vocabulary retry, sent only when the parsed result has keywords
\* outside the vocabulary; after that it returns or raises
C17_AtMostTwoRemediations ==
    [][/\ Len(ai'.queries) <= 3
       /\ ai'.queries # ai.queries
             => Sends("original") \/ Sends("format") \/ Sends("vocabulary")
       /\ Sends("original") => ai.queries = <<>>
       /\ Sends("format")
             => /\ ai.queries = <<"original">>
                /\ ParseResult(ai.orig_result).error
                       \in {"JSONDecodeError", "ValidationError"}
       /\ Sends("vocabulary")
             => /\ \A i \in 1..Len(ai.queries) : ai.queries[i] # "vocabulary"
                /\ ai.error = ""
                /\ CheckInvalid(ai.kw_links) # {}
                /\ ai'.pc \in {"returned", "raised"}
       /\ ai.pc \in {"returned", "raised", "persisted", "failed"}
             => ai'.queries = ai.queries]_vars

\* both retries were sent and the call returned
C17_Witness ==
    /\ ai.queries = <<"original", "format", "vocabulary">>
    /\ ai.pc = "returned"

\* C18: when the provider gave no previous-response id and the first
\* response is not JSON or does not match the item shape, inspect_links
\* raises that failure without sending another query
C18_NoContinuationRaises ==
    (/\ ai.pc \notin {"idle", "start", "parse"}
     /\ ai.ids[1] = <<>>
     /\ ParseResult(ai.orig_result).error
            \in {"JSONDecodeError", "ValidationError"})
        => /\ ai.pc \in {"raised", "failed"}
           /\ ai.queries = <<"original">>
           /\ ai.error = ParseResult(ai.orig_result).error

\* the gemini model answered with an object that lacks "text"
C18_Witness ==
    /\ ai.model = "GEMINI"
    /\ ai.orig_result = Some(ObjNoText)
    /\ ai.pc = "raised"
    /\ ai.error = "ValidationError"

\* the answer to the vocabulary retry, parsed
VocabularyAnswer == ParseResult(ai.responses[Len(ai.queries)])

\* the call returned the answer to its vocabulary retry, and that answer
\* still has keywords outside the vocabulary
ReturnedAfterFailedRetry ==
    /\ ai.pc \in {"returned", "persisted"}
    /\ ai.queries # <<>>
    /\ ai.queries[Len(ai.queries)] = "vocabulary"
    /\ CheckInvalid(VocabularyAnswer.kw_links) # {}

\* a fraction num / den is the value n / d
IsFraction(total, n, d) == total.num * d = n * total.den

C20_SingleObjectPromoted ==
    /\ \A n \in 1..Len(ai.responses) :
          LET result == ai.responses[n]
          IN (result # None /\ result[1].type = "dict")
                => /\ ParseResult(result)
                          = ParseResult(Some(JList(<<result[1]>>)))
                   /\ Validates(result[1])
                          => ParseResult(result)
                                 = Parsed(<<ModelValidate(result[1])>>)
    /\ (/\ ai.pc = "check"
        /\ ai.queries = <<"original">>
        /\ ai.orig_result # None
        /\ ai.orig_result[1].type = "dict")
          => ai.kw_links = <<ModelValidate(ai.orig_result[1])>>

\* the first response was the single object for the finance link and its
\* parse is the one-element list
C20_Witness ==
    /\ ai.orig_result = Some(ObjFinance)
    /\ ai.pc = "check"
    /\ Len(ai.kw_links) = 1
    /\ ai.kw_links[1].url = "u1"

\* ------------------------------------------------------------------------
\* Ranking and the link transaction (LinksSpec)
\* ------------------------------------------------------------------------
\* the ranking has run on the classifier's links
Ranked == tx.state # "none"

\* the fractions a and b are the same number
FracEq(a, b) == a.num * b.den = b.num * a.den

\* pat occurs in s
Contains(s, pat) ==
    \E i \in 0..(Len(s) - Len(pat)) :
        \A j \in 1..Len(pat) : s[i + j] = pat[j]

\* the keyword k is a key of the map
HasKeyword(keywords, k) == \E j \in 1..Len(keywords) : keywords[j].k = k

\* how often e occurs in the sequence
Occurrences(seq, e) == Cardinality({j \in 1..Len(seq) : seq[j] = e})

\* the sum of f over the finite set S
RECURSIVE SumOver(_, _)
SumOver(S, f) ==
    IF S = {} THEN 0
    ELSE LET x == CHOOSE y \in S : TRUE
         IN f[x] + SumOver(S \ {x}, f)

\* C21 as stated: the total score of every keyword map the validator accepts
\* lies in [0, 2)
C21_TotalBelowTwo ==
    Ranked =>
        \A i \in 1..Len(ai.kw_links) :
            LET total == KeywordRanking(ai.kw_links[i]).total
            IN /\ total.num >= 0
               /\ total.num < 2 * total.den

\* C22: the total is the sum of w_i / 2^i over the weights sorted in
\* descending order, a weight being raw score x vocabulary weight, or raw
\* score x 0.25 outside the vocabulary; {finance: 1.0, budget: 1.0} gives 1.5
\* and that is the score of the row written
C22_HalvingSum ==
    Ranked =>
        \A i \in 1..Len(ai.kw_links) :
            LET kw_link == ai.kw_links[i]
                keywords == kw_link.keywords
                n == Len(keywords)
                weights == [j \in 1..n |->
                               [k |-> keywords[j].k,
                                score |-> IF keywords[j].k \in DOMAIN KEYWORDS
                                          THEN keywords[j].v
                                                   * KEYWORDS[keywords[j].k]
                                          ELSE keywords[j].v * 25]]
                sorted == SortByScore(weights)
                total == KeywordRanking(kw_link).total
            IN /\ Weighted(keywords) = weights
               /\ Len(sorted) = n
               /\ \A j \in 1..n :
                     Occurrences(sorted, weights[j])
                         = Occurrences(weights, weights[j])
               /\ \A j \in 1..(n - 1) : sorted[j].score >= sorted[j + 1].score
               /\ total.den > 0
               /\ total.num * 1000 * Pow2(n)
                      = total.den
                            * SumOver(1..n, [j \in 1..n |->
                                  sorted[j].score * Pow2(n - (j - 1))])
               /\ (n = 2 /\ HasKeyword(keywords, "finance")
                         /\ HasKeyword(keywords, "budget")
                         /\ \A j \in 1..n : keywords[j].v = 10)
                     => /\ IsFraction(total, 3, 2)
                        /\ ai.pc = "persisted"
                              => \E l \in links :
                                     /\ l.url = kw_link.url
                                     /\ l.score = total

\* {finance: 1.0, budget: 1.0} was ranked and its row written with 1.5
C22_Witness ==
    /\ ai.pc = "persisted"
    /\ ai.kw_links[1].keywords = <<Kw("finance", 10), Kw("budget", 10)>>
    /\ \E l \in links : l.url = ai.kw_links[1].url /\ IsFraction(l.score, 3, 2)

\* C23 as stated: the keyword string has every keyword once, by descending
\* weighted score, ';'-joined and wrapped in ';', so that k is a keyword of
\* the link exactly when ';' + k + ';' is a substring of the string
C23_KeywordIffSubstring ==
    Ranked =>
        \A i \in 1..Len(ai.kw_links) :
            LET keywords == ai.kw_links[i].keywords
                sorted == SortByScore(Weighted(keywords))
                kw_str == KeywordRanking(ai.kw_links[i]).kw_str
            IN /\ kw_str = KwStr([j \in 1..Len(sorted) |-> sorted[j].k])
               /\ \A j \in 1..Len(keywords) :
                     Occurrences([x \in 1..Len(sorted) |-> sorted[x].k],
                                 keywords[j].k) = 1
               /\ \A k \in RankKeys \cup DOMAIN KEYWORDS \cup {"tax"} :
                     HasKeyword(keywords, k)
                         <=> Contains(kw_str, <<";">> \o Symbols(k) \o <<";">>)

\* C24 as stated: one more keyword of weighted score 0 does not change the
\* total of any keyword map
C24_ZeroKeywordNeutral ==
    Ranked =>
        \A i \in 1..Len(ai.kw_links) :
            LET kw_link == ai.kw_links[i]
            IN \A k \in RankKeys \cup DOMAIN KEYWORDS :
                   ~HasKeyword(kw_link.keywords, k) =>
                       FracEq(KeywordRanking(
                                  [kw_link EXCEPT !.keywords =
                                       Append(@, Kw(k, 0))]).total,
                              KeywordRanking(kw_link).total)

\* C25 as stated: a link of total 0 is dropped, and every link row that
\* process_links writes has a strictly positive score
C25_RowsStrictlyPositive ==
    /\ Ranked =>
          \A j \in 1..Len(tx.db_links) : tx.db_links[j].score.num # 0
    /\ \A l \in links : l.score.num > 0 /\ l.score.den > 0

\* C28: the link table changes only when the scope exits without an
\* exception, and then to what every upsert of the page made of it; when an
\* upsert raises the table stays as it was before the scope, whatever had
\* been upserted; the connection is closed on both paths
C28_CommitIffCleanExit ==
    [][/\ links' # links
          => /\ tx.state = "open" /\ tx.i > Len(tx.db_links)
             /\ ai'.pc = "persisted"
       /\ (tx.state = "open" /\ ai'.pc = "persisted")
          => /\ tx.i > Len(tx.db_links)
             /\ links' = tx.view
             /\ links' = UpsertLinks(links, tx.db_links)
             /\ tx'.state = "closed" /\ tx'.outcome = "committed"
       /\ (tx.state = "open" /\ ai'.pc = "failed")
          => /\ links' = links
             /\ tx'.state = "closed" /\ tx'.outcome = "rolled_back"
       /\ (tx.state = "open" /\ tx'.state = "open")
          => links' = links]_vars

\* an upsert raised after another one had been done, and no row was kept
C28_Witness ==
    /\ tx.state = "closed"
    /\ tx.outcome = "rolled_back"
    /\ tx.i = 2
    /\ tx.view # {}
    /\ links = {}
    /\ ai.pc = "failed"

\* C26: normalization is idempotent: normalizing the url it produced, with
\* the same base url and max_params, gives the same url again and never
\* skips it
C26_NormalizeIdempotent ==
    norm.pc = "twice" =>
        /\ norm.again # None
        /\ norm.again = norm.out

\* a relative href with a fragment and more parameters than max_params was
\* resolved, stripped and truncated, and normalized again
C26_Witness ==
    /\ norm.pc = "twice"
    /\ HasPrefix(norm.href, <<"/">>)
    /\ Find(norm.href, "#") # 0
    /\ norm.max_params = Some(1)
    /\ Find(norm.out[1], "?") # 0
    /\ Len(norm.out[1]) < Len(BeforeFirst(norm.base_url \o norm.href, "#"))
    /\ norm.again = norm.out

\* ------------------------------------------------------------------------
\* Robots failure, worker resilience, link failure
\* ------------------------------------------------------------------------
\* C27 as stated: when robots.txt cannot be fetched the robots gate allows
\* every url
C27_RobotsFailureAllowsAll ==
    (runPc # "init" /\ cfg.robots_txt = None) =>
        \A url \in {UrlRoot, UrlA, UrlAB, UrlPriv, UrlDoc, UrlExt} :
            RobotAllowed(robots, url)

\* the worker holds a dequeued url
Processing(w) == pc[w] \in {"process", "links", "hash", "enqueue", "finally"}

\* C29: a worker that holds a url never ends its thread, whatever fails:
\* it reaches the finally block, which counts the task done, decrements
\* active_workers by one, wakes the waiting workers and returns the worker
\* to the loop; active_workers is the number of workers that hold a url
C29_FailureNeverStopsWorker ==
    [][/\ active_workers = Cardinality({w \in Workers : Processing(w)})
       /\ \A w \in Workers :
             /\ (Processing(w) /\ pc[w] # "finally") => Processing(w)'
             /\ (pc[w] = "finally" /\ pc'[w] # "finally")
                   => /\ pc'[w] = "loop"
                      /\ active_workers' = active_workers - 1
                      /\ unfinished' = unfinished - 1
                      /\ \A v \in Workers : pc'[v] # "waiting"
             /\ (pc[w] = "process" /\ pc'[w] # "process"
                                   /\ faults' = faults + 1)
                   => pc'[w] = "finally"]_vars

\* a render failed, its error row is there, and a worker processes the next
\* url while no other worker holds one
C29_Witness ==
    /\ faults = 1
    /\ \E p \in pages : p.url = UrlAB /\ p.error = Some("render failed")
    /\ \E w \in Workers : pc[w] = "process" /\ cur[w].url = UrlPriv
    /\ active_workers = 1

\* C30 as stated: when link processing fails for a rendered page the page
\* row has the empty hash, the error message and crawl_time = run_start - 1
\* second, no link row is written, and the extracted links go on to the
\* queue
C30_LinkFailureRow ==
    [][\A w \in Workers :
          (pc[w] = "links" /\ pc'[w] \in {"enqueue", "finally"})
              => /\ \A p \in PageById(pages', cur[w].page_id) :
                       /\ p.hash = EmptyHash
                       /\ p.error = Some("links failed")
                       /\ FromIso(p.crawl_time)
                              = MinusSeconds(cfg.crawl_time, 1)
                 /\ links' = links
                 /\ cur[w].links # <<>> => pc'[w] = "enqueue"
                 /\ cur'[w].links = cur[w].links]_vars

\* ------------------------------------------------------------------------
\* Retry, documents, extraction, teardown, counters
\* ------------------------------------------------------------------------
\* the run started with a row of the url that a failed processing left:
\* error set, hash empty
LeftInError(url) ==
    \E p \in cache : p.url = url /\ p.error # None /\ p.hash = EmptyHash

\* C31: a page whose row an earlier run left in the error state is not
\* skipped as unchanged when its url is dequeued and rendered again: the
\* classifier is invoked on its links, and when that succeeds its link rows
\* are upserted, also when the links are the same as before
C31_ErrorPageReprocessed ==
    [][\A w \in Workers :
          (pc[w] = "links" /\ pc'[w] # "links" /\ LeftInError(cur[w].url))
              => /\ cur[w].links # <<>> => cur[w].url \in classified'
                 /\ pc'[w] = "hash"
                       => links' = UpsertLinks(links,
                                       DbLinks(cur[w].page_id, cur[w].links))
                 /\ pc'[w] # "hash" => faults' = faults + 1]_vars

\* the seed, left in the error state by the earlier run, was rendered and
\* classified again and its link rows carry this run's crawl_time
C31_Witness ==
    /\ cfg.store = 2
    /\ \E w \in Workers : pc[w] = "hash" /\ cur[w].url = UrlRoot
                          /\ LeftInError(UrlRoot)
    /\ UrlRoot \in classified
    /\ \E l \in links : l.page_id = 1 /\ l.crawl_time = Iso(cfg.crawl_time)

\* C32: processing a url that ends, in any letter case, in a document
\* extension changes nothing: the page is not rendered, no page or link row
\* is written or changed and nothing is enqueued; the worker goes straight
\* to its finally block
C32_DocumentTouchesNothing ==
    [][\A w \in Workers :
          (pc[w] = "process" /\ cur[w].url = UrlDoc /\ pc'[w] # "process")
              => /\ pc'[w] = "finally"
                 /\ UNCHANGED <<pages, links, nextPageId, queue, visited,
                                count, unfinished, rendered, touched,
                                classified>>]_vars

\* the document url was dequeued and skipped: not rendered, no row
C32_Witness ==
    \E w \in Workers :
        /\ pc[w] = "finally"
        /\ cur[w].url = UrlDoc
        /\ UrlDoc \notin rendered
        /\ PageRows(pages, SiteId, UrlDoc) = {}

\* urlparse(url).scheme is http or https
HttpScheme(url) ==
    HasPrefix(url, <<"http", ":">>) \/ HasPrefix(url, <<"http", "s", ":">>)

\* C33 as stated: every url extract_links returns has the scheme http or
\* https and no '#'; a candidate that begins with '#' or whose scheme is
\* another one is rejected
C33_OnlyHttpNoFragment ==
    norm.pc # "found" =>
        /\ norm.out # None
              => /\ HttpScheme(norm.out[1])
                 /\ Find(norm.out[1], "#") = 0
        /\ (HasPrefix(norm.href, <<"#">>)
               \/ ~HttpScheme(Absolute(norm.base_url, norm.href)))
              => norm.out = None

\* the items of a response that have the shape {url, text, keywords}
ValidItems(unparsed) ==
    LET valid == SelectSeq(ItemsOf(unparsed), Validates)
    IN [i \in 1..Len(valid) |-> ModelValidate(valid[i])]

\* C34 as stated: the items of a response that cannot be coerced to the
\* shape are discarded one by one, and the parse of the response returns
\* its other items
C34_InvalidItemsDiscarded ==
    (/\ Len(ai.queries) = 1
     /\ ai.pc \in {"check", "raised", "returned"}
     /\ ai.orig_result # None
     /\ ai.orig_result[1].type \in {"dict", "list"})
        => /\ ai.error = ""
           /\ ai.kw_links = ValidItems(ai.orig_result[1])

\* C35 as stated: once process_url has left the render of a url, by
\* returning from it or by raising, every page handle opened for the url is
\* closed
C35_PageHandleClosed ==
    handles.pc \in {"raised", "done"} => handles.closed = handles.opened

\* C36: active_workers is between 0 and the number of workers and is the
\* number of workers that have dequeued a url and not yet run the finally
\* block for it; a worker that goes on to queue.get() finds the queue
\* non-empty, so it never blocks while it holds the condition
C36_ActiveWorkersExact ==
    /\ active_workers \in 0..NumWorkers
    /\ active_workers = Cardinality({w \in Workers : Processing(w)})
    /\ \A w \in Workers :
          (/\ pc[w] = "loop"
           /\ ~MustWait(queue, active_workers)
           /\ ~CanShutDown(queue, active_workers))
              => queue # <<>>

\* two workers hold a url at once while a third url waits in the queue
C36_Witness ==
    /\ active_workers = 2
    /\ Cardinality({w \in Workers : Processing(w)}) = 2
    /\ queue # <<>>

\* C37 as stated: when a url has been processed, the error of its page row
\* is NULL after a success and the message of this run's failure after a
\* failed render or a failed link processing, also when the row is older
\* than the run
C37_ErrorReflectsProcessing ==
    [][\A w \in Workers :
          LET rows == PageRows(pages', SiteId, cur[w].url)
          IN /\ (pc[w] = "hash" /\ pc'[w] # "hash")
                   => rows # {} /\ \A p \in rows : p.error = None
             /\ (pc[w] = "process" /\ pc'[w] # "process"
                                   /\ faults' = faults + 1)
                   => rows # {}
                      /\ \A p \in rows : p.error = Some("render failed")
             /\ (pc[w] = "links" /\ pc'[w] # "links"
                                 /\ faults' = faults + 1)
                   => rows # {}
                      /\ \A p \in rows : p.error = Some("links failed")]_vars

\* C38 as stated: whatever stale_hours is, the end-of-run reap deletes no
\* page row and no link row that this run inserted or updated, the error
\* rows dated one second back included
C38_ReapKeepsThisRunsRows ==
    [][ReapStep
         => /\ \A p \in pages : p.id \in touched => p \in pages'
            /\ \A l \in links :
                  FromIso(l.crawl_time) = cfg.crawl_time => l \in links']_vars

\* C39 as stated: a call on the model without continuation (GEMINI, empty
\* previous-response id) issues exactly one query, whatever the first
\* response contains: no format retry and no vocabulary retry
C39_NoContinuationOneQuery ==
    (ai.model = "GEMINI" /\ ai.pc \notin {"idle", "start"})
        => ai.queries = <<"original">>

\* one of the three reasons for which add_to_queue returns False
Refused(url, depth) ==
    \/ cfg.max_count # None /\ cfg.max_count[1] # 0 /\ count >= cfg.max_count[1]
    \/ cfg.max_depth # None /\ cfg.max_depth[1] # 0 /\ depth > cfg.max_depth[1]
    \/ url \in visited

\* what one add_to_queue(url, depth) call does to the queue, the visited set
\* and the count
CallFrame(url, depth) ==
    IF Refused(url, depth)
    THEN visited' = visited /\ queue' = queue /\ count' = count
    ELSE /\ visited' = visited \cup {url}
         /\ Cardinality(visited') = Cardinality(visited) + 1
         /\ queue' = Append(queue, <<url, depth + 1>>)
         /\ count' = count + 1

\* the number of pairs taken from the queue so far
RECURSIVE TotalHanded(_)
TotalHanded(hist) ==
    IF hist = {} THEN 0
    ELSE LET e == CHOOSE x \in hist : TRUE
         IN e[2] + TotalHanded(hist \ {e})

\* C40: an add_to_queue call that returns False (count cap reached, depth
\* cap exceeded, or url already visited) leaves the queue, the visited set
\* and the count unchanged; a call that returns True adds exactly one url to
\* the visited set, one pair to the queue and one to the count; so count is
\* the size of the visited set and the number of pairs ever enqueued (those
\* still queued plus those handed to a worker)
C40_AddToQueueFrame ==
    [][/\ (runPc = "init" /\ runPc' # "init") => CallFrame(cfg.seed_url, 0)
       /\ \A w \in Workers :
             (/\ pc[w] = "enqueue"
              /\ cur'[w].i = cur[w].i + 1
              /\ AllowedToCrawl(cur[w].links[cur[w].i].url))
                => CallFrame(cur[w].links[cur[w].i].url, cur[w].depth)
       /\ count' = Cardinality(visited')
       /\ count' = Len(queue') + TotalHanded(dequeued')]_vars

\* with max_count 2 the seed and its first link were enqueued and a later
\* link of the seed was refused; one pair was handed out, one is queued
C40_Witness ==
    /\ cfg.max_count = Some(2)
    /\ count = 2
    /\ Len(queue) = 1
    /\ \E w \in Workers : cur[w].url = cfg.seed_url /\ cur[w].i >= 3

====
